---- MODULE Spec2Model ----
(***************************************************************************)
(* Quote aggregation pipeline of the currency-exchange API:                *)
(*   src/src/services/quoteService.js  fetchAllQuotes, fetchArsQuotes,     *)
(*                                     fetchBrlQuotes, calculateAverages,  *)
(*                                     storeQuotesInDb                     *)
(*   src/src/server.js                 GET /quotes, GET /average,          *)
(*                                     startServer (initial fetch, timer)  *)
(*   src/src/utils/statusTracker.js    StatusTracker                       *)
(*                                                                         *)
(* Prices are integers in units of 1/10000 (5.2 is 52000), so that a       *)
(* toFixed(4) string is the integer it shows.  JavaScript values carry a   *)
(* tag t: "null", "undefined", "num", "str", "array", "object".            *)
(***************************************************************************)
EXTENDS Integers, Sequences, FiniteSets, TLC

(* ---------------------------------------------------------------------- *)
(* Bounds                                                                  *)
(* ---------------------------------------------------------------------- *)
MaxCalls == 3          \* fetchAllQuotes calls over one run
MaxSlots == 2          \* calls in progress at the same time
MaxTicks == 2          \* clock advances, each of TickMs
MaxLen == 3            \* longest quote sequence given to calculateAverages
MaxUpdates == 4        \* updateStatus calls over one run
MaxSaves == 3          \* saveExchangeRate calls over one run
MaxGets == 3           \* getDb calls over one run
MaxFetches == 3        \* fetchWithRetry calls over one run

(* ---------------------------------------------------------------------- *)
(* Program constants                                                       *)
(* ---------------------------------------------------------------------- *)
CACHE_DURATION == 30000
REFRESH_INTERVAL == 30000

TickMs == CACHE_DURATION \div 2
MaxTime == MaxTicks * TickMs
Slots == 1 .. MaxSlots
\* the callers of getDb: startServer, the /health handler, saveExchangeRate
Callers == {"startServer", "health", "saveExchangeRate"}
\* the modules that define a fetchWithRetry: brlWise.js, brlNubank.js and
\* the DolarHoy adapter of part_005
RetryModules == {"brlWise", "brlNubank", "dolarhoy"}

(* ---------------------------------------------------------------------- *)
(* JavaScript values                                                       *)
(* ---------------------------------------------------------------------- *)
Null == [t |-> "null"]
Undefined == [t |-> "undefined"]
Num(n) == [t |-> "num", v |-> n]
\* the string printed by toFixed(4) for the value n/10000
Str4(n) == [t |-> "str", v |-> n]
Arr(s) == [t |-> "array", v |-> s]

\* JavaScript truthiness of the values the model uses
Truthy(x) ==
  CASE x.t = "null" -> FALSE
    [] x.t = "undefined" -> FALSE
    [] x.t = "num" -> x.v # 0
    [] OTHER -> TRUE

\* x.length: defined for arrays only
LengthOf(x) == IF x.t = "array" THEN Num(Len(x.v)) ELSE Undefined

\* obj.name for a property the object may not have
Prop(obj, name) ==
  IF obj.t = "object" /\ name \in DOMAIN obj THEN obj[name] ELSE Undefined

\* a / b rounded to the nearest integer, halves away from zero (b > 0)
RoundDiv(a, b) ==
  IF a >= 0 THEN (2 * a + b) \div (2 * b)
            ELSE 0 - ((2 * (0 - a) + b) \div (2 * b))

(* ---------------------------------------------------------------------- *)
(* calculateAverages (quoteService.js 175-199)                             *)
(* ---------------------------------------------------------------------- *)
\* the reducer's test: if (quote.buy_price)
Counted(quote) == Truthy(quote.buy_price)

\* parseFloat(quote.sell_price || quote.buy_price * 1.02), in units of 1e-6
SellOrSpread6(quote) ==
  IF Truthy(quote.sell_price) THEN quote.sell_price.v * 100
                              ELSE quote.buy_price.v * 102

RECURSIVE ReduceQuotes(_, _)
\* quotes.reduce(...): acc = [buySum (1e-4), sellSum (1e-6), count]
ReduceQuotes(qs, acc) ==
  IF qs = <<>> THEN acc
  ELSE LET quote == Head(qs)
           next == IF Counted(quote)
                   THEN [buySum |-> acc.buySum + quote.buy_price.v,
                         sellSum |-> acc.sellSum + SellOrSpread6(quote),
                         count |-> acc.count + 1]
                   ELSE acc
       IN ReduceQuotes(Tail(qs), next)

\* the early return of lines 176-182: no quote_count property
EmptyAverages ==
  [t |-> "object", average_buy_price |-> Null, average_sell_price |-> Null]

\* calculateAverages dividing by quotes.length instead of the count
calculateAveragesByLength(quotes) ==
  IF ~Truthy(quotes) \/ ~Truthy(LengthOf(quotes))
  THEN EmptyAverages
  ELSE LET acc == ReduceQuotes(quotes.v, [buySum |-> 0, sellSum |-> 0, count |-> 0])
       IN [t |-> "object",
           average_buy_price |->
             IF acc.count > 0 THEN Str4(RoundDiv(acc.buySum, Len(quotes.v))) ELSE Null,
           average_sell_price |->
             IF acc.count > 0 THEN Str4(RoundDiv(acc.sellSum, Len(quotes.v) * 100)) ELSE Null,
           quote_count |-> Num(acc.count)]

calculateAverages(quotes) ==
  IF ~Truthy(quotes) \/ ~Truthy(LengthOf(quotes))
  THEN EmptyAverages
  ELSE LET acc == ReduceQuotes(quotes.v, [buySum |-> 0, sellSum |-> 0, count |-> 0])
       IN [t |-> "object",
           average_buy_price |->
             IF acc.count > 0 THEN Str4(RoundDiv(acc.buySum, acc.count)) ELSE Null,
           average_sell_price |->
             IF acc.count > 0 THEN Str4(RoundDiv(acc.sellSum, acc.count * 100)) ELSE Null,
           quote_count |-> Num(acc.count)]

(* ---------------------------------------------------------------------- *)
(* calculateSlippage (quoteService.js 207-230)                             *)
(* ---------------------------------------------------------------------- *)
\* Number values that are not finite, and the strings toFixed prints for them
NaN == [t |-> "nan"]
NaNStr == [t |-> "strNaN"]
InfinityStr(negative) == [t |-> "strInfinity", negative |-> negative]
\* "-0.0000": toFixed keeps the sign of a negative value that rounds to zero
NegZeroStr == [t |-> "strNegZero"]
\* a number in units of 1e-6 (a sell price after the 1.02 substitution)
Num6(n) == [t |-> "num6", v |-> n]
\* the exception a property read on null or undefined raises
Thrown == [t |-> "throw"]

\* |a| / |b| rounded to the nearest integer, halves up (b # 0)
RoundDivAbs(a, b) ==
  LET x == IF a < 0 THEN 0 - a ELSE a
      y == IF b < 0 THEN 0 - b ELSE b
  IN (x \div y) + (IF 2 * (x % y) >= y THEN 1 ELSE 0)

\* obj.name as the engine evaluates it: a TypeError on null and undefined
Get(obj, name) ==
  IF obj.t \in {"null", "undefined"} THEN Thrown ELSE Prop(obj, name)

\* parseFloat(x) of a number, a toFixed(4) string, or anything else
ParseFloat(x) ==
  CASE x.t = "num" -> x
    [] x.t = "str" -> Num(x.v)
    [] x.t = "strNegZero" -> Num(0)
    [] OTHER -> NaN

\* SellPrice6 with the 1% spread of the adapters (brlNubank.js 148) in place
\* of the 2% of line 216
SellPrice6OnePercent(quote) ==
  IF Truthy(quote.sell_price) THEN Num6(quote.sell_price.v * 100)
  ELSE IF quote.buy_price.t = "num" THEN Num6(quote.buy_price.v * 101)
  ELSE NaN

\* parseFloat(quote.sell_price || quote.buy_price * 1.02), in units of 1e-6
SellPrice6(quote) ==
  IF Truthy(quote.sell_price) THEN Num6(quote.sell_price.v * 100)
  ELSE IF quote.buy_price.t = "num" THEN Num6(quote.buy_price.v * 102)
  ELSE NaN

\* ((price - avg) / avg).toFixed(4), avg in units of 1e-4 and price in
\* units of 1e-4 / k
SlippageStr(price, avg, k) ==
  IF price.t = "nan" \/ avg.t = "nan" THEN NaNStr
  ELSE IF avg.v = 0
       THEN IF price.v = 0 THEN NaNStr ELSE InfinityStr(price.v < 0)
  ELSE LET num == (price.v - avg.v * k) * (10000 \div k)
           r == RoundDivAbs(num, avg.v)
           negative == (num < 0 /\ avg.v > 0) \/ (num > 0 /\ avg.v < 0)
       IN IF negative THEN (IF r = 0 THEN NegZeroStr ELSE Str4(0 - r))
                      ELSE Str4(r)

\* the record quotes.map builds for one quote (lines 214-229)
SlippageRecord(quote, averages) ==
  LET buyPrice == ParseFloat(quote.buy_price)
      sellPrice == SellPrice6(quote)
      avgBuy == ParseFloat(Prop(averages, "average_buy_price"))
      avgSell == ParseFloat(Prop(averages, "average_sell_price"))
  IN [source |-> quote.source,
      source_url |-> quote.source_url,
      buy_price |-> buyPrice,
      sell_price |-> sellPrice,
      buy_price_slippage |-> SlippageStr(buyPrice, avgBuy, 1),
      sell_price_slippage |-> SlippageStr(sellPrice, avgSell, 100)]

\* MapQuotes over the quotes that calculateAverages counts only
MapCountedQuotes(quotes, averages) ==
  LET counted == SelectSeq(quotes, Counted)
  IN [i \in 1 .. Len(counted) |-> SlippageRecord(counted[i], averages)]

\* quotes.map(quote => ...) of line 214
MapQuotes(quotes, averages) ==
  [i \in 1 .. Len(quotes) |-> SlippageRecord(quotes[i], averages)]

\* calculateSlippage without the !averages test of line 208
calculateSlippageNoAveragesGuard(quotes, averages) ==
  IF ~Truthy(quotes) \/ ~Truthy(LengthOf(quotes))
  THEN Arr(<<>>)
  ELSE IF Get(averages, "average_buy_price") = Thrown THEN Thrown
  ELSE IF \/ Get(averages, "average_buy_price") = Null
          \/ Get(averages, "average_sell_price") = Null
  THEN Arr(<<>>)
  ELSE Arr(MapQuotes(quotes.v, averages))

calculateSlippage(quotes, averages) ==
  IF ~Truthy(quotes) \/ ~Truthy(LengthOf(quotes)) \/ ~Truthy(averages)
  THEN Arr(<<>>)
  ELSE IF Get(averages, "average_buy_price") = Thrown THEN Thrown
  ELSE IF \/ Get(averages, "average_buy_price") = Null
          \/ Get(averages, "average_sell_price") = Null
  THEN Arr(<<>>)
  ELSE Arr(MapQuotes(quotes.v, averages))

(* ---------------------------------------------------------------------- *)
(* Sources and the quotes their adapters yield                             *)
(* ---------------------------------------------------------------------- *)
ArsSources == <<"Ambito", "DolarHoy", "Cronista">>
BrlSources == <<"Wise", "Nubank", "Nomad">>
Groups == {"ars", "brl"}
GroupSources(g) == IF g = "ars" THEN ArsSources ELSE BrlSources
GroupCurrency(g) == IF g = "ars" THEN "ARS" ELSE "BRL"
Sources == {ArsSources[i] : i \in 1 .. 3} \cup {BrlSources[i] : i \in 1 .. 3}

\* what one adapter invocation can end in: an exception, a null parse
\* result, or parsed data
Outcomes == {"throw", "nodata", "ok"}

\* the data a source's parser returns when it succeeds (one value per source)
ParsedData(s) ==
  CASE s = "Ambito" -> [buy_price |-> Num(50000), sell_price |-> Num(51000)]
    [] s = "DolarHoy" -> [buy_price |-> Num(52000), sell_price |-> Num(53000)]
    [] s = "Cronista" -> [buy_price |-> Num(54000), sell_price |-> Num(55000)]
    [] s = "Wise" -> [buy_price |-> Num(50000), sell_price |-> Num(51000)]
    [] s = "Nubank" -> [buy_price |-> Num(52000), sell_price |-> Num(53000)]
    [] OTHER -> [buy_price |-> Num(54000), sell_price |-> Num(55000)]

\* the source_url that fetchArsQuotes (74, 90, 106) and fetchBrlQuotes (130,
\* 145, 160) give the quotes of a source
SourceUrl(s) ==
  CASE s = "Ambito" -> "https://www.ambito.com/contenidos/dolar.html"
    [] s = "DolarHoy" -> "https://www.dolarhoy.com"
    [] s = "Cronista" -> "https://www.cronista.com/MercadosOnline/moneda.html?id=ARSB"
    [] s = "Wise" -> "https://wise.com/us/currency-converter/usd-to-brl-rate"
    [] s = "Nubank" -> "https://nubank.com.br/cambio/hoje"
    [] OTHER -> "https://www.nomadprelo.com.br/cambio"

\* results.push({...data, currency, base_currency, source, ...})
PushedQuote(g, s) ==
  [source |-> s, source_url |-> SourceUrl(s), currency |-> GroupCurrency(g),
   buy_price |-> ParsedData(s).buy_price, sell_price |-> ParsedData(s).sell_price]

(* ---------------------------------------------------------------------- *)
(* State                                                                   *)
(* ---------------------------------------------------------------------- *)
VARIABLES
  now,          \* Date.now()
  lastTimer,    \* instant at which startServer's fetch / the interval last fired
  started,      \* fetchAllQuotes calls made so far
  cache,        \* CACHE.get('all-quotes'): Undefined or {data, timestamp}
  lastReturned, \* the last result a call aggregated itself and returned, with
                \* the timestamp it was cached under
  pc,           \* per call: idle, fetching, persist, returned, threw, done
  kind,         \* per call: who called fetchAllQuotes (timer, quotes, average)
  startedAt,    \* per call: the local const now of fetchAllQuotes
  hit,          \* per call: the call took the cache branch (line 25)
  idx,          \* per call and group: adapters of the group already settled
  got,          \* per call and group: the group's results array
  result,       \* per call: the value fetchAllQuotes resolved with
  err,          \* per call: what made fetchAllQuotes reject (none, db, source)
  dbIdx,        \* per call: inserts of storeQuotesInDb already run
  resp,         \* per call: the HTTP response sent, or NoResp
  prior,        \* per call: lastReturned as it was when the call started
  succeeded,    \* per call: the sources whose adapter yielded data
  status,       \* StatusTracker.status: source -> entry
  tries,        \* per call and source: HTTP requests of the source's adapter
                \* that have failed and were followed by another request
  failedCycle,  \* the cycle whose persistence write was the last to fail,
                \* until a cycle stores its entry in the cache: when it
                \* threw, its cache timestamp and its result
  inTransaction, \* the database connection has an open transaction
  uncommitted,  \* per call: sources whose row the call wrote inside the
                \* transaction that is open now
  persisted,    \* per call: sources whose row the call wrote and that is
                \* committed
  avgIn,        \* quotes argument of a direct calculateAverages /
                \* calculateSlippage call
  avgOut,       \* return value of calculateAverages
  slipAvg,      \* averages argument of a direct calculateSlippage call
  slipOut,      \* return value of calculateSlippage
  scrapeIn,     \* a direct adapter call: the source and what its requests
                \* are answered with
  scrapeOut,    \* what the adapter returned, and what fetchBrlQuotes pushed
  outcomes,     \* per source: the outcomes recorded by updateStatus, in order
  lastUpdate,   \* the last updateStatus call: its arguments and the ledger
                \* as it was before the call
  lastQuery,    \* the last getStatus, getSourceStatus or isHealthy call made
                \* since the last updateStatus: its argument and the value
                \* it returned
  variant,      \* which db module is loaded: "better-sqlite3" or "sqlite"
  store,        \* the tables: sources, exchange_rates, historical_rates
  saves,        \* the saveExchangeRate calls made: arguments, outcome and the
                \* tables before and after
  dbInstance,   \* the module's connection: 0 for null, else the connection
  opened,       \* the connections open() was called for since close() last
                \* reset dbInstance
  initialized,  \* the connections initializeDatabase has been run on since
                \* then, in order
  getDbCalls,   \* per caller of getDb: where the call stands, the connection
                \* it asked open() for and the connection it returned
  gets,         \* getDb calls made so far
  closePc,      \* close(): "idle", or "closing" while the connection closes
  retryCalls,   \* per module that defines fetchWithRetry: where its call
                \* stands, the loop index, the answers its requests got and
                \* what it returned or threw
  fetches       \* fetchWithRetry calls made so far

scrapeVars == <<scrapeIn, scrapeOut>>
pureVars == <<avgIn, avgOut, slipAvg, slipOut, scrapeVars>>
dbVars == <<inTransaction, uncommitted, persisted>>
aggVars == <<now, lastTimer, started, cache, lastReturned, pc, kind, startedAt,
             hit, idx, got, result, err, dbIdx, resp, prior, succeeded, status,
             dbVars, tries, failedCycle>>
trackVars == <<outcomes, lastUpdate, lastQuery>>
connVars == <<dbInstance, opened, initialized, getDbCalls, gets, closePc>>
retryVars == <<retryCalls, fetches>>
storeVars == <<variant, store, saves, connVars, retryVars>>
vars == <<aggVars, pureVars, trackVars, storeVars>>

Kinds == {"timer", "quotes", "average"}
NoResp == [status |-> 0]
Unset == [t |-> "unset"]

InitAgg ==
  /\ now = 0
  /\ failedCycle = Unset
  /\ tries = [c \in Slots |-> [s \in Sources |-> 0]]
  /\ inTransaction = FALSE
  /\ uncommitted = [c \in Slots |-> {}]
  /\ persisted = [c \in Slots |-> {}]
  /\ lastTimer = 0 - 1
  /\ started = 0
  /\ cache = Undefined
  /\ lastReturned = Unset
  /\ pc = [c \in Slots |-> "idle"]
  /\ kind = [c \in Slots |-> "none"]
  /\ startedAt = [c \in Slots |-> 0]
  /\ hit = [c \in Slots |-> FALSE]
  /\ idx = [c \in Slots |-> [g \in Groups |-> 0]]
  /\ got = [c \in Slots |-> [g \in Groups |-> <<>>]]
  /\ result = [c \in Slots |-> Undefined]
  /\ err = [c \in Slots |-> "none"]
  /\ dbIdx = [c \in Slots |-> 0]
  /\ resp = [c \in Slots |-> NoResp]
  /\ prior = [c \in Slots |-> Unset]
  /\ succeeded = [c \in Slots |-> {}]

\* new StatusTracker(): an empty Map
InitStatus ==
  /\ status = [s \in {} |-> Null]
  /\ outcomes = [s \in Sources |-> <<>>]
  /\ lastUpdate = Unset
  /\ lastQuery = Unset

InitPure ==
  /\ avgIn = Unset
  /\ avgOut = Unset
  /\ slipAvg = Unset
  /\ slipOut = Unset
  /\ scrapeIn = Unset
  /\ scrapeOut = Unset

\* no fetchWithRetry call is in progress
NoFetch == [pc |-> "idle", i |-> 0, answers |-> <<>>, ret |-> 0, error |-> 0]

InitRetry ==
  /\ retryCalls = [m \in RetryModules |-> NoFetch]
  /\ fetches = 0

\* let dbInstance = null, and nobody has called getDb
InitConn ==
  /\ dbInstance = 0
  /\ opened = 0
  /\ initialized = <<>>
  /\ getDbCalls = [k \in Callers |-> [pc |-> "idle", mine |-> 0, ret |-> 0]]
  /\ gets = 0
  /\ closePc = "idle"

\* the tables after initializeDatabase: the six default sources, no rates
InitStore ==
  /\ store = [sources |-> Sources, exchange_rates |-> {}, historical_rates |-> <<>>]
  /\ saves = <<>>
  /\ InitConn
  /\ InitRetry

\* quoteService.js calls db.beginTransaction, db.run, db.commit and
\* db.rollback, which only the better-sqlite3 module exports
Init ==
  /\ InitAgg /\ InitStatus /\ InitPure /\ InitStore
  /\ variant = "better-sqlite3"

(* ---------------------------------------------------------------------- *)
(* fetchAllQuotes (quoteService.js 18-57)                                  *)
(* ---------------------------------------------------------------------- *)
\* line 24: cached && (now - cached.timestamp) < CACHE_DURATION
CacheValid(entry, t) ==
  Truthy(entry) /\ (t - entry.timestamp) < CACHE_DURATION

\* lines 19-33: the synchronous head of fetchAllQuotes, up to the first await
FetchAllQuotesBegin(c) ==
  /\ startedAt' = [startedAt EXCEPT ![c] = now]
  /\ prior' = [prior EXCEPT ![c] = lastReturned]
  /\ IF CacheValid(cache, now)
     THEN /\ hit' = [hit EXCEPT ![c] = TRUE]
          /\ result' = [result EXCEPT ![c] = cache.data]
          /\ pc' = [pc EXCEPT ![c] = "returned"]
     ELSE /\ hit' = [hit EXCEPT ![c] = FALSE]
          /\ result' = result
          /\ pc' = [pc EXCEPT ![c] = "fetching"]
  /\ UNCHANGED <<cache, lastReturned, idx, got, err, dbIdx>>

\* calls that have begun and whose caller has not finished with them
Busy == {c \in Slots : pc[c] # "idle"}

\* startServer's initial fetch (server.js 185), a firing of the interval
\* (191-202), or a request arriving at GET /quotes (84-86) or GET /average
\* (127-129); at most limit calls are in progress
Start(c, k, limit) ==
  /\ pc[c] = "idle"
  /\ \A d \in Slots : d < c => pc[d] # "idle"
  /\ Cardinality(Busy) < limit
  /\ started < MaxCalls
  /\ k \in Kinds
  /\ started = 0 => k = "timer"
  /\ k = "timer" => (now % REFRESH_INTERVAL = 0 /\ lastTimer # now)
  /\ started' = started + 1
  /\ kind' = [kind EXCEPT ![c] = k]
  /\ lastTimer' = IF k = "timer" THEN now ELSE lastTimer
  /\ FetchAllQuotesBegin(c)
  /\ UNCHANGED <<now, resp, succeeded, status, pureVars, trackVars, storeVars, dbVars, tries, failedCycle>>

\* the adapter of call c's group g that is awaited now
Awaited(c, g) == GroupSources(g)[idx[c][g] + 1]

\* line 52: the call resolves with the result it aggregated
Returned(c, res) ==
  /\ pc' = [pc EXCEPT ![c] = "returned"]
  /\ lastReturned' = [res |-> res, cachedAt |-> startedAt[c]]

\* lines 53-55: the call rejects
Threw(c, e) ==
  /\ pc' = [pc EXCEPT ![c] = "threw"]
  /\ err' = [err EXCEPT ![c] = e]

\* AdapterSettle without the try/catch around the adapter: an exception
\* of the adapter rejects the group, Promise.all and fetchAllQuotes
AdapterSettleNoCatch(c, g, o) ==
  /\ pc[c] = "fetching"
  /\ idx[c][g] < 3
  /\ got' = [got EXCEPT ![c][g] =
               IF o = "ok" THEN Append(@, PushedQuote(g, Awaited(c, g))) ELSE @]
  /\ succeeded' = [succeeded EXCEPT ![c] =
                      IF o = "ok" THEN @ \cup {Awaited(c, g)} ELSE @]
  /\ idx' = [idx EXCEPT ![c][g] = @ + 1]
  /\ IF o = "throw" THEN Threw(c, "source") ELSE UNCHANGED <<pc, err>>
  /\ UNCHANGED <<now, lastTimer, started, cache, lastReturned, kind,
                 startedAt, hit, result, dbIdx, resp, prior, status, pureVars, trackVars, storeVars, dbVars, tries, failedCycle>>

\* one try block of fetchArsQuotes / fetchBrlQuotes (62-114, 119-168): the
\* awaited fetch settles, the parsed data (if any) is pushed, the error (if
\* any) is logged, and the group's next adapter is started
AdapterSettle(c, g, o) ==
  /\ pc[c] = "fetching"
  /\ idx[c][g] < 3
  /\ got' = [got EXCEPT ![c][g] =
               IF o = "ok" THEN Append(@, PushedQuote(g, Awaited(c, g))) ELSE @]
  /\ succeeded' = [succeeded EXCEPT ![c] =
                      IF o = "ok" THEN @ \cup {Awaited(c, g)} ELSE @]
  /\ idx' = [idx EXCEPT ![c][g] = @ + 1]
  /\ UNCHANGED <<now, lastTimer, started, cache, lastReturned, pc, kind,
                 startedAt, hit, result, err, dbIdx, resp, prior, status, pureVars, trackVars, storeVars, dbVars, tries, failedCycle>>

\* fetchWithRetry's maxRetries (brlWise.js 19, brlNubank.js 19): the
\* requests one call of it makes at most
MaxRetries == 3

\* the requests that the adapter of a source makes one after the other, at
\* most: parseBrlWise calls fetchWithRetry for the configuration (brlWise.js
\* 56), the rates (69) and the page (108); parseBrlNubank for the API
\* (brlNubank.js 55) and the page (90); parseBrlNomad makes one axios.get
\* (brlNomad.js 25); fetchArsQuotes one httpClient.get per source
\* (quoteService.js 67, 83, 99)
RequestBudget(s) ==
  CASE s = "Wise" -> 3 * MaxRetries
    [] s = "Nubank" -> 2 * MaxRetries
    [] OTHER -> 1

\* RequestFails with a fetchWithRetry that has no last attempt: after the
\* wait it requests again, however many requests have failed
RequestFailsNoLimit(c, g) ==
  /\ pc[c] = "fetching"
  /\ idx[c][g] < 3
  /\ tries' = [tries EXCEPT ![c][Awaited(c, g)] =
                 (@ + 1) % RequestBudget(Awaited(c, g))]
  /\ UNCHANGED <<now, lastTimer, started, cache, lastReturned, pc, kind,
                 startedAt, hit, idx, got, result, err, dbIdx, resp, prior,
                 succeeded, status, pureVars, trackVars, storeVars, dbVars,
                 failedCycle>>

\* a request of the awaited adapter fails (error or timeout) and is not the
\* adapter's last: fetchWithRetry waits and requests again (brlWise.js
\* 39-43, brlNubank.js 40-44), or parseBrlWise catches the error of the
\* third attempt and requests the page (brlWise.js 102-108)
RequestFails(c, g) ==
  /\ pc[c] = "fetching"
  /\ idx[c][g] < 3
  /\ tries[c][Awaited(c, g)] + 1 < RequestBudget(Awaited(c, g))
  /\ tries' = [tries EXCEPT ![c][Awaited(c, g)] = @ + 1]
  /\ UNCHANGED <<now, lastTimer, started, cache, lastReturned, pc, kind,
                 startedAt, hit, idx, got, result, err, dbIdx, resp, prior,
                 succeeded, status, pureVars, trackVars, storeVars, dbVars,
                 failedCycle>>

\* ROLLBACK on the connection (part_008 297-299): the open transaction's
\* writes are undone, whoever made them; without an open transaction the
\* statement throws and changes nothing
Rollback ==
  /\ inTransaction' = FALSE
  /\ uncommitted' = [d \in Slots |-> {}]
  /\ persisted' = persisted

\* COMMIT on the connection (292-294) with a transaction open
Commit ==
  /\ inTransaction' = FALSE
  /\ uncommitted' = [d \in Slots |-> {}]
  /\ persisted' = [d \in Slots |-> persisted[d] \cup uncommitted[d]]

\* db.run of the INSERT for a source's quote (302-309, quoteService.js
\* 245-265): part of the open transaction if there is one, committed at
\* once otherwise
Insert(c, s) ==
  /\ inTransaction' = inTransaction
  /\ IF inTransaction
     THEN /\ uncommitted' = [uncommitted EXCEPT ![c] = @ \cup {s}]
          /\ persisted' = persisted
     ELSE /\ persisted' = [persisted EXCEPT ![c] = @ \cup {s}]
          /\ uncommitted' = uncommitted

\* storeQuotesInDb rethrows (271) and so does fetchAllQuotes (55)
PersistenceFailed(c, res) ==
  /\ Threw(c, "db")
  /\ failedCycle' = [at |-> now, cachedAt |-> startedAt[c], data |-> res]

\* lines 39-42
MakeResult(c, allQuotes) ==
  [t |-> "object", timestamp |-> now, quotes |-> Arr(allQuotes)]

\* Join with the cache written after storeQuotesInDb has begun its
\* transaction: a cycle whose BEGIN fails leaves the slot as it was
JoinCacheAfterBegin(c, beginOk) ==
  /\ pc[c] = "fetching"
  /\ \A g \in Groups : idx[c][g] = 3
  /\ LET allQuotes == got[c]["ars"] \o got[c]["brl"]
         res == MakeResult(c, allQuotes)
         entry == [t |-> "object", data |-> res, timestamp |-> startedAt[c]]
     IN /\ result' = [result EXCEPT ![c] = res]
        /\ IF allQuotes = <<>>
           THEN /\ Returned(c, res) /\ err' = err /\ UNCHANGED dbVars
                /\ cache' = entry
                /\ failedCycle' = Unset
           ELSE IF beginOk /\ ~inTransaction
           THEN /\ pc' = [pc EXCEPT ![c] = "persist"]
                /\ inTransaction' = TRUE
                /\ cache' = entry
                /\ failedCycle' = Unset
                /\ UNCHANGED <<lastReturned, err, uncommitted, persisted>>
           ELSE /\ PersistenceFailed(c, res) /\ lastReturned' = lastReturned
                /\ Rollback
                /\ cache' = cache
  /\ UNCHANGED <<now, lastTimer, started, kind, startedAt, hit, idx, got,
                 dbIdx, resp, prior, succeeded, status, pureVars, trackVars, storeVars, tries>>

\* Join with storeQuotesInDb lacking the guard of line 237: an empty batch
\* begins a transaction too
JoinNoEmptyGuard(c, beginOk) ==
  /\ pc[c] = "fetching"
  /\ \A g \in Groups : idx[c][g] = 3
  /\ LET allQuotes == got[c]["ars"] \o got[c]["brl"]
         res == MakeResult(c, allQuotes)
     IN /\ cache' = [t |-> "object", data |-> res, timestamp |-> startedAt[c]]
        /\ result' = [result EXCEPT ![c] = res]
        /\ IF beginOk /\ ~inTransaction
           THEN /\ pc' = [pc EXCEPT ![c] = "persist"]
                /\ inTransaction' = TRUE
                /\ failedCycle' = Unset
                /\ UNCHANGED <<lastReturned, err, uncommitted, persisted>>
           ELSE PersistenceFailed(c, res) /\ lastReturned' = lastReturned /\ Rollback
  /\ UNCHANGED <<now, lastTimer, started, kind, startedAt, hit, idx, got,
                 dbIdx, resp, prior, succeeded, status, pureVars, trackVars, storeVars, tries>>

\* Promise.all resolved: lines 36-50, up to storeQuotesInDb's first await
\* (237 returns for no quotes, 242 begins the transaction)
Join(c, beginOk) ==
  /\ pc[c] = "fetching"
  /\ \A g \in Groups : idx[c][g] = 3
  /\ LET allQuotes == got[c]["ars"] \o got[c]["brl"]
         res == MakeResult(c, allQuotes)
     IN /\ cache' = [t |-> "object", data |-> res, timestamp |-> startedAt[c]]
        /\ result' = [result EXCEPT ![c] = res]
        /\ IF allQuotes = <<>>
           THEN /\ Returned(c, res) /\ err' = err /\ UNCHANGED dbVars
                /\ failedCycle' = Unset
           ELSE IF beginOk /\ ~inTransaction
           THEN /\ pc' = [pc EXCEPT ![c] = "persist"]
                /\ inTransaction' = TRUE
                /\ failedCycle' = Unset
                /\ UNCHANGED <<lastReturned, err, uncommitted, persisted>>
           ELSE PersistenceFailed(c, res) /\ lastReturned' = lastReturned /\ Rollback
  /\ UNCHANGED <<now, lastTimer, started, kind, startedAt, hit, idx, got,
                 dbIdx, resp, prior, succeeded, status, pureVars, trackVars, storeVars, tries>>

\* storeQuotesInDb 244-272: the next insert, or the commit after the last
\* one; a failing statement (a COMMIT without an open transaction is one)
\* rolls back and is rethrown (268-271, 55)
PersistStep(c, ok) ==
  /\ pc[c] = "persist"
  /\ IF dbIdx[c] < Len(result[c].quotes.v)
     THEN IF ok
          THEN /\ Insert(c, result[c].quotes.v[dbIdx[c] + 1].source)
               /\ dbIdx' = [dbIdx EXCEPT ![c] = @ + 1]
               /\ UNCHANGED <<pc, err, lastReturned, failedCycle>>
          ELSE /\ Rollback
               /\ PersistenceFailed(c, result[c])
               /\ dbIdx' = [dbIdx EXCEPT ![c] = 0]
               /\ lastReturned' = lastReturned
     ELSE IF ok /\ inTransaction
          THEN /\ Commit
               /\ Returned(c, result[c])
               /\ dbIdx' = [dbIdx EXCEPT ![c] = 0]
               /\ UNCHANGED <<err, failedCycle>>
          ELSE /\ Rollback
               /\ PersistenceFailed(c, result[c])
               /\ dbIdx' = [dbIdx EXCEPT ![c] = 0]
               /\ lastReturned' = lastReturned
  /\ UNCHANGED <<now, lastTimer, started, cache, kind, startedAt, hit, idx,
                 got, result, resp, prior, succeeded, status, pureVars, trackVars, storeVars, tries>>

(* ---------------------------------------------------------------------- *)
(* HTTP handlers and the timer (server.js)                                 *)
(* ---------------------------------------------------------------------- *)
\* what Express does with a handler whose promise rejects: version 4 leaves
\* the request unanswered, version 5 passes the error to the error
\* middleware (server.js 158-164)
ExpressVersions == {4, 5}

\* GET /quotes, lines 86-99: fetchAllQuotes resolved
QuotesRespond(c) ==
  /\ kind[c] = "quotes"
  /\ pc[c] = "returned"
  /\ resp' = [resp EXCEPT ![c] =
                [status |-> 200,
                 xcache |-> IF Truthy(Prop(result[c], "cached")) THEN "HIT" ELSE "MISS",
                 body |-> result[c]]]
  /\ pc' = [pc EXCEPT ![c] = "done"]
  /\ UNCHANGED <<now, lastTimer, started, cache, lastReturned, kind,
                 startedAt, hit, idx, got, result, err, dbIdx, prior, succeeded, status,
                 pureVars, trackVars, storeVars, dbVars, tries, failedCycle>>

\* GET /quotes, lines 100-123: fetchAllQuotes rejected.  Line 104 reads
\* CACHE, which server.js neither declares nor imports, so the catch block
\* itself throws a ReferenceError and lines 105-122 never run
QuotesCatch(c, express) ==
  /\ kind[c] = "quotes"
  /\ pc[c] = "threw"
  /\ resp' = [resp EXCEPT ![c] =
                IF express = 5
                THEN [status |-> 500, xcache |-> "none",
                      body |-> [t |-> "object", error |-> "Internal server error"]]
                ELSE NoResp]
  /\ pc' = [pc EXCEPT ![c] = "done"]
  /\ UNCHANGED <<now, lastTimer, started, cache, lastReturned, kind,
                 startedAt, hit, idx, got, result, err, dbIdx, prior, succeeded, status,
                 pureVars, trackVars, storeVars, dbVars, tries, failedCycle>>

\* GET /average, lines 129-138: the resolved value itself, not its quotes
\* array, is handed to calculateAverages
AverageRespond(c) ==
  /\ kind[c] = "average"
  /\ pc[c] \in {"returned", "threw"}
  /\ resp' = [resp EXCEPT ![c] =
                IF pc[c] = "returned"
                THEN [status |-> 200, xcache |-> "none",
                      body |-> calculateAverages(result[c])]
                ELSE [status |-> 500, xcache |-> "none",
                      body |-> [t |-> "object", error |-> "Failed to calculate averages"]]]
  /\ pc' = [pc EXCEPT ![c] = "done"]
  /\ UNCHANGED <<now, lastTimer, started, cache, lastReturned, kind,
                 startedAt, hit, idx, got, result, err, dbIdx, prior, succeeded, status,
                 pureVars, trackVars, storeVars, dbVars, tries, failedCycle>>

\* startServer, lines 185-187 and 195-201: the outcome is only logged
TimerDone(c) ==
  /\ kind[c] = "timer"
  /\ pc[c] \in {"returned", "threw"}
  /\ pc' = [pc EXCEPT ![c] = "done"]
  /\ UNCHANGED <<now, lastTimer, started, cache, lastReturned, kind,
                 startedAt, hit, idx, got, result, err, dbIdx, resp, prior, succeeded,
                 status, pureVars, trackVars, storeVars, dbVars, tries, failedCycle>>

\* the caller is finished: its locals and the request are gone
Forget(c) ==
  /\ pc[c] = "done"
  /\ pc' = [pc EXCEPT ![c] = "idle"]
  /\ kind' = [kind EXCEPT ![c] = "none"]
  /\ startedAt' = [startedAt EXCEPT ![c] = 0]
  /\ hit' = [hit EXCEPT ![c] = FALSE]
  /\ idx' = [idx EXCEPT ![c] = [g \in Groups |-> 0]]
  /\ got' = [got EXCEPT ![c] = [g \in Groups |-> <<>>]]
  /\ result' = [result EXCEPT ![c] = Undefined]
  /\ err' = [err EXCEPT ![c] = "none"]
  /\ resp' = [resp EXCEPT ![c] = NoResp]
  /\ prior' = [prior EXCEPT ![c] = Unset]
  /\ succeeded' = [succeeded EXCEPT ![c] = {}]
  /\ tries' = [tries EXCEPT ![c] = [s \in Sources |-> 0]]
  /\ uncommitted' = [uncommitted EXCEPT ![c] = {}]
  /\ persisted' = [persisted EXCEPT ![c] = {}]
  /\ UNCHANGED <<now, lastTimer, started, cache, lastReturned, dbIdx, status,
                 pureVars, trackVars, storeVars, inTransaction, failedCycle>>

\* time passes
Tick ==
  /\ now + TickMs <= MaxTime
  /\ now' = now + TickMs
  /\ UNCHANGED <<lastTimer, started, cache, lastReturned, pc, kind,
                 startedAt, hit, idx, got, result, err, dbIdx, resp, prior, succeeded,
                 status, pureVars, trackVars, storeVars, dbVars, tries, failedCycle>>

\* while calls overlap, these sources answer and the others are down
OverlapUp == {"Ambito", "Wise"}

\* the program with at most limit calls in progress, the sources of up always
\* answering and those of down never
NextWith(limit, up, down) ==
  \/ \E c \in Slots, k \in Kinds : Start(c, k, limit)
  \/ \E c \in Slots, g \in Groups, o \in Outcomes :
       /\ idx[c][g] < 3
       /\ o = "ok" => Awaited(c, g) \notin down
       /\ o # "ok" => Awaited(c, g) \notin up
       /\ AdapterSettle(c, g, o)
  \/ \E c \in Slots, beginOk \in BOOLEAN : Join(c, beginOk)
  \/ \E c \in Slots, ok \in BOOLEAN : PersistStep(c, ok)
  \/ \E c \in Slots : QuotesRespond(c)
  \/ \E c \in Slots, express \in ExpressVersions : QuotesCatch(c, express)
  \/ \E c \in Slots : AverageRespond(c)
  \/ \E c \in Slots : TimerDone(c)
  \/ \E c \in Slots : Forget(c)
  \/ Tick

\* overlapping calls
Next == NextWith(MaxSlots, OverlapUp, Sources \ OverlapUp)

Spec == Init /\ [][Next]_vars

\* one call at a time, every source free to answer or fail
NextCycle == NextWith(1, {}, {})

SpecCycle == Init /\ [][NextCycle]_vars

\* while sources are down for good: the adapters of LiveUp return data in
\* the end (Nubank's after requests that failed or at once), those of
\* LiveDown never do
LiveUp == {"Ambito", "DolarHoy", "Nomad", "Nubank"}
LiveDown == {"Wise", "Cronista"}

\* the request that call c's group g awaits settles: the adapter returns or
\* throws, or goes on to its next request
RequestSettles(c, g) ==
  \/ \E o \in Outcomes :
       /\ idx[c][g] < 3
       /\ o = "ok" => Awaited(c, g) \notin LiveDown
       /\ o # "ok" => Awaited(c, g) \notin LiveUp
       /\ AdapterSettle(c, g, o)
  \/ RequestFails(c, g)

\* one call at a time, with the requests that fail before an adapter settles
NextLive ==
  \/ NextWith(1, LiveUp, LiveDown)
  \/ \E c \in Slots, g \in Groups : RequestFails(c, g)

\* a step of a call in progress: a request it awaits settles, or a statement
\* it sent to the database does
Progress ==
  \E c \in Slots :
    \/ \E g \in Groups : RequestSettles(c, g)
    \/ \E beginOk \in BOOLEAN : Join(c, beginOk)
    \/ \E ok \in BOOLEAN : PersistStep(c, ok)

\* while a call awaits a request or a statement, one of them settles in the
\* end (axios timeout: brlWise.js 24, brlNubank.js 24, brlNomad.js 37,
\* part_003 5)
SpecLive == Init /\ [][NextLive]_vars /\ WF_vars(Progress)

(* ---------------------------------------------------------------------- *)
(* StatusTracker (statusTracker.js), called directly                       *)
(* ---------------------------------------------------------------------- *)
\* a boolean
Bool(b) == [t |-> "bool", v |-> b]
\* a text string
Text(v) == [t |-> "string", v |-> v]
\* an Error object
ErrorObj(message) == [t |-> "error", message |-> Text(message)]

\* error.message || String(error)
ErrorText(error) ==
  IF error.t = "error"
  THEN IF error.message.v # "" THEN error.message ELSE Text("Error")
  ELSE error

\* truthiness of an error argument: null, undefined and "" are falsy
ErrorGiven(error) ==
  CASE error.t \in {"null", "undefined"} -> FALSE
    [] error.t = "string" -> error.v # ""
    [] OTHER -> TRUE

\* this.status.get(source)
StatusGet(source) ==
  IF source \in DOMAIN status THEN status[source] ELSE Undefined

\* StatusEntry without the + 1 of line 12: a failure keeps the count
StatusEntryNoIncrement(source, success, error, timestamp) ==
  LET ok == IF success.t = "undefined" THEN TRUE ELSE success.v
      e == IF error = Undefined THEN Null ELSE error
      ts == IF timestamp.t = "undefined" THEN now ELSE timestamp.v
      before == StatusGet(source)
      failures == IF before = Undefined THEN 0 ELSE before.consecutiveFailures
  IN [t |-> "object",
      success |-> ok,
      error |-> IF ErrorGiven(e) THEN ErrorText(e) ELSE Null,
      timestamp |-> ts,
      lastAttempt |-> ts,
      consecutiveFailures |-> IF ok THEN 0 ELSE failures]

\* StatusEntry without the reset on success of line 12
StatusEntryNoReset(source, success, error, timestamp) ==
  LET ok == IF success.t = "undefined" THEN TRUE ELSE success.v
      e == IF error = Undefined THEN Null ELSE error
      ts == IF timestamp.t = "undefined" THEN now ELSE timestamp.v
      before == StatusGet(source)
      failures == IF before = Undefined THEN 0 ELSE before.consecutiveFailures
  IN [t |-> "object",
      success |-> ok,
      error |-> IF ErrorGiven(e) THEN ErrorText(e) ELSE Null,
      timestamp |-> ts,
      lastAttempt |-> ts,
      consecutiveFailures |-> IF ok THEN failures ELSE failures + 1]

\* the entry updateStatus stores (lines 7-13); an undefined argument takes
\* the default of line 6
StatusEntry(source, success, error, timestamp) ==
  LET ok == IF success.t = "undefined" THEN TRUE ELSE success.v
      e == IF error = Undefined THEN Null ELSE error
      ts == IF timestamp.t = "undefined" THEN now ELSE timestamp.v
      before == StatusGet(source)
      failures == IF before = Undefined THEN 0 ELSE before.consecutiveFailures
  IN [t |-> "object",
      success |-> ok,
      error |-> IF ErrorGiven(e) THEN ErrorText(e) ELSE Null,
      timestamp |-> ts,
      lastAttempt |-> ts,
      consecutiveFailures |-> IF ok THEN 0 ELSE failures + 1]

\* isHealthy without the success test of line 27
isHealthyNoSuccessTest(source) ==
  LET sourceStatus == StatusGet(source)
  IN IF sourceStatus = Undefined THEN FALSE
     ELSE sourceStatus.consecutiveFailures < 3

isHealthy(source) ==
  LET sourceStatus == StatusGet(source)
  IN IF sourceStatus = Undefined THEN FALSE
     ELSE sourceStatus.success /\ sourceStatus.consecutiveFailures < 3

\* the sources the direct calls name
TrackedSources == {"Ambito", "Wise"}

\* the outcomes a caller records: a success (no error, or an explicit null)
\* and a failure with an Error or with a reason string
StatusArgs ==
  {[success |-> Undefined, error |-> Undefined, timestamp |-> Undefined],
   [success |-> Bool(TRUE), error |-> Null, timestamp |-> Num(7)],
   [success |-> Bool(FALSE), error |-> ErrorObj("timeout"), timestamp |-> Undefined],
   [success |-> Bool(FALSE), error |-> Text("blocked"), timestamp |-> Undefined]}

RECURSIVE Recorded(_)
\* the number of outcomes recorded for the sources of S
Recorded(S) ==
  IF S = {} THEN 0
  ELSE LET s == CHOOSE x \in S : TRUE
       IN Len(outcomes[s]) + Recorded(S \ {s})

\* updateStatus with a ledger that keeps the entry of the last call only
updateStatusSingleEntry(source, args) ==
  /\ Recorded(Sources) < MaxUpdates
  /\ LET entry == StatusEntry(source, args.success, args.error, args.timestamp)
     IN /\ status' = [s \in {source} |-> entry]
        /\ outcomes' = [outcomes EXCEPT ![source] = Append(@, entry.success)]
        /\ lastUpdate' = [source |-> source, args |-> args, at |-> now,
                          before |-> status]
        /\ lastQuery' = Unset
  /\ UNCHANGED <<now, lastTimer, started, cache, lastReturned, pc, kind,
                 startedAt, hit, idx, got, result, err, dbIdx, resp, prior,
                 succeeded, pureVars, storeVars, dbVars, tries, failedCycle>>

updateStatus(source, args) ==
  /\ Recorded(Sources) < MaxUpdates
  /\ LET entry == StatusEntry(source, args.success, args.error, args.timestamp)
     IN /\ status' = [s \in DOMAIN status \cup {source} |->
                        IF s = source THEN entry ELSE status[s]]
        /\ outcomes' = [outcomes EXCEPT ![source] = Append(@, entry.success)]
        /\ lastUpdate' = [source |-> source, args |-> args, at |-> now,
                          before |-> status]
        /\ lastQuery' = Unset
  /\ UNCHANGED <<now, lastTimer, started, cache, lastReturned, pc, kind,
                 startedAt, hit, idx, got, result, err, dbIdx, resp, prior,
                 succeeded, pureVars, storeVars, dbVars, tries, failedCycle>>

\* a call that only reads the ledger and returns value
Query(call, source, value) ==
  /\ lastQuery' = [call |-> call, source |-> source, value |-> value]
  /\ UNCHANGED <<aggVars, pureVars, storeVars, outcomes, lastUpdate>>

\* getStatus (16-18): an object with the ledger's entries
getStatus == Query("getStatus", "", [t |-> "object", entries |-> status])

\* getSourceStatus (20-22): the entry, or null
getSourceStatus(source) ==
  Query("getSourceStatus", source,
        IF Truthy(StatusGet(source)) THEN StatusGet(source) ELSE Null)

\* a call of isHealthy (24-28)
IsHealthyCall(source) == Query("isHealthy", source, Bool(isHealthy(source)))

NextStatus ==
  \/ \E source \in TrackedSources, args \in StatusArgs : updateStatus(source, args)
  \/ getStatus
  \/ \E source \in TrackedSources : getSourceStatus(source)
  \/ \E source \in TrackedSources : IsHealthyCall(source)
  \/ Tick

SpecStatus == Init /\ [][NextStatus]_vars

(* ---------------------------------------------------------------------- *)
(* saveExchangeRate (db module, both variants), called directly            *)
(* ---------------------------------------------------------------------- *)
Variants == {"better-sqlite3", "sqlite"}

\* the columns of the UNIQUE constraint of exchange_rates (lines 62, 400)
RateKey(row) ==
  <<row.base_currency, row.target_currency, row.source, row.timestamp>>

\* the row a call writes; timestamp = Date.now() when none is given (453)
RateRow(rateData) ==
  [base_currency |-> rateData.baseCurrency,
   target_currency |-> rateData.targetCurrency,
   source |-> rateData.source,
   buy_rate |-> rateData.buyRate,
   sell_rate |-> rateData.sellRate,
   timestamp |-> IF rateData.timestamp.t = "undefined" THEN now
                 ELSE rateData.timestamp.v]

\* INSERT ... ON CONFLICT(base_currency, target_currency, source_id,
\* timestamp) DO UPDATE SET buy_rate, sell_rate (lines 469-478)
Upsert(rows, row) ==
  {r \in rows : RateKey(r) # RateKey(row)} \cup {row}

\* the sqlite variant (451-495): BEGIN, get or create the source, upsert,
\* append to historical_rates, COMMIT; a failing statement rolls back
SaveSqlite(rateData, ok) ==
  IF ok
  THEN [sources |-> store.sources \cup {rateData.source},
        exchange_rates |-> Upsert(store.exchange_rates, RateRow(rateData)),
        historical_rates |-> Append(store.historical_rates, RateRow(rateData))]
  ELSE store

\* the better-sqlite3 variant (140-194): the source is created outside any
\* transaction, then the upsert names ON CONFLICT(base_currency,
\* target_currency, source_id) and the column updated_at, neither of which
\* the table of lines 49-63 has, so that preparing it throws
SaveBetterSqlite(rateData) ==
  [store EXCEPT !.sources = @ \cup {rateData.source}]

\* what direct callers pass: a seeded and a new source, two rates, a given
\* timestamp or none
SaveArgs ==
  {[baseCurrency |-> "USD", targetCurrency |-> "BRL", source |-> src,
    buyRate |-> buy, sellRate |-> buy + 1000, timestamp |-> ts] :
     src \in {"Wise", "Test Source"}, buy \in {52500, 53000},
     ts \in {Undefined, Num(1000)}}

saveExchangeRate(rateData, ok) ==
  /\ Len(saves) < MaxSaves
  /\ variant = "better-sqlite3" => ~ok
  /\ store' = IF variant = "sqlite" THEN SaveSqlite(rateData, ok)
                                   ELSE SaveBetterSqlite(rateData)
  /\ saves' = Append(saves, [args |-> rateData, row |-> RateRow(rateData),
                             resolved |-> ok, before |-> store, after |-> store'])
  /\ UNCHANGED <<aggVars, pureVars, trackVars, variant, connVars, retryVars>>

InitSave ==
  /\ InitAgg /\ InitStatus /\ InitPure /\ InitStore
  /\ variant \in Variants

NextSave ==
  \/ \E rateData \in SaveArgs, ok \in BOOLEAN : saveExchangeRate(rateData, ok)
  \/ Tick

SpecSave == InitSave /\ [][NextSave]_vars

(* ---------------------------------------------------------------------- *)
(* getDb and close of the sqlite module                                    *)
(* ---------------------------------------------------------------------- *)
\* getDb up to its first await: with dbInstance set it returns it, else it
\* calls open() and waits
GetDbBegin(k) ==
  /\ getDbCalls[k].pc = "idle"
  /\ gets < MaxGets
  /\ gets' = gets + 1
  /\ IF dbInstance # 0
       THEN /\ getDbCalls' = [getDbCalls EXCEPT ![k] =
                                [pc |-> "returned", mine |-> 0, ret |-> dbInstance]]
            /\ opened' = opened
       ELSE /\ opened' = opened + 1
            /\ getDbCalls' = [getDbCalls EXCEPT ![k] =
                                [pc |-> "open", mine |-> opened', ret |-> 0]]
  /\ UNCHANGED <<aggVars, pureVars, trackVars, variant, store, saves, retryVars,
                 dbInstance, initialized, closePc>>

\* open() resolves: dbInstance = the connection this call asked for; the
\* PRAGMA statements are sent to dbInstance
OpenResolves(k) ==
  /\ getDbCalls[k].pc = "open"
  /\ dbInstance' = getDbCalls[k].mine
  /\ getDbCalls' = [getDbCalls EXCEPT ![k].pc = "exec"]
  /\ UNCHANGED <<aggVars, pureVars, trackVars, variant, store, saves, retryVars,
                 opened, initialized, gets, closePc>>

\* exec resolves: initializeDatabase(dbInstance) is called with the
\* connection the variable holds now; with null, db.exec throws a TypeError
\* that initializeDatabase rethrows (374-445) and getDb is rejected
ExecResolves(k) ==
  /\ getDbCalls[k].pc = "exec"
  /\ IF dbInstance # 0
       THEN /\ initialized' = Append(initialized, dbInstance)
            /\ getDbCalls' = [getDbCalls EXCEPT ![k].pc = "init"]
       ELSE /\ initialized' = initialized
            /\ getDbCalls' = [getDbCalls EXCEPT ![k].pc = "threw"]
  /\ UNCHANGED <<aggVars, pureVars, trackVars, variant, store, saves, retryVars,
                 dbInstance, opened, gets, closePc>>

\* initializeDatabase resolves: return dbInstance
InitializeResolves(k) ==
  /\ getDbCalls[k].pc = "init"
  /\ getDbCalls' = [getDbCalls EXCEPT ![k].pc = "returned", ![k].ret = dbInstance]
  /\ UNCHANGED <<aggVars, pureVars, trackVars, variant, store, saves, retryVars,
                 dbInstance, opened, initialized, gets, closePc>>

\* the caller is done with the connection and may call getDb again
GetDbDone(k) ==
  /\ getDbCalls[k].pc \in {"returned", "threw"}
  /\ getDbCalls' = [getDbCalls EXCEPT ![k] = [pc |-> "idle", mine |-> 0, ret |-> 0]]
  /\ UNCHANGED <<aggVars, pureVars, trackVars, variant, store, saves, retryVars,
                 dbInstance, opened, initialized, gets, closePc>>

\* close() up to its await: with dbInstance set it closes the connection
CloseBegin ==
  /\ closePc = "idle"
  /\ dbInstance # 0
  /\ closePc' = "closing"
  /\ UNCHANGED <<aggVars, pureVars, trackVars, variant, store, saves, retryVars,
                 dbInstance, opened, initialized, getDbCalls, gets>>

\* the connection has closed: dbInstance = null
CloseResolves ==
  /\ closePc = "closing"
  /\ closePc' = "idle"
  /\ dbInstance' = 0
  /\ opened' = 0
  /\ initialized' = <<>>
  /\ UNCHANGED <<aggVars, pureVars, trackVars, variant, store, saves, retryVars,
                 getDbCalls, gets>>

InitDb ==
  /\ InitAgg /\ InitStatus /\ InitPure /\ InitStore
  /\ variant = "sqlite"

NextDb ==
  \/ \E k \in Callers : GetDbBegin(k)
  \/ \E k \in Callers : OpenResolves(k)
  \/ \E k \in Callers : ExecResolves(k)
  \/ \E k \in Callers : InitializeResolves(k)
  \/ \E k \in Callers : GetDbDone(k)
  \/ CloseBegin
  \/ CloseResolves

SpecDb == InitDb /\ [][NextDb]_vars

(* ---------------------------------------------------------------------- *)
(* fetchWithRetry (brlWise.js 19-45, brlNubank.js 19-46, part_005 63-109)  *)
(* ---------------------------------------------------------------------- *)
\* what one axios request can be answered with: a response, a response
\* whose body is a bot-detection page, or a rejection (timeout, network
\* error, refused status)
Answers == {"response", "challenge", "error"}

\* the attempt ends in the catch block: axios rejected, or part_005 97-102
\* threw 'Bot detection triggered' for the response
AttemptFails(m, answer) ==
  \/ answer = "error"
  \/ m = "dolarhoy" /\ answer = "challenge"

\* brlWise.js 42, brlNubank.js 43: if (i === maxRetries - 1) throw error
LastAttemptNever(i) == FALSE

LastAttempt(i) == i = MaxRetries - 1

\* the call with default maxRetries: the loop is entered with i = 0 and the
\* first request is sent
FetchWithRetryBegin(m) ==
  /\ retryCalls[m].pc = "idle"
  /\ fetches < MaxFetches
  /\ fetches' = fetches + 1
  /\ retryCalls' = [retryCalls EXCEPT ![m] = [NoFetch EXCEPT !.pc = "request"]]
  /\ UNCHANGED <<aggVars, pureVars, trackVars, variant, store, saves, connVars>>

\* the request settles (its timeout is 10000 or 20000 ms): the response is
\* returned, or the catch block throws on the last attempt (brlWise,
\* brlNubank) or keeps the error and starts the backoff timer
RequestSettled(m, answer) ==
  LET call == retryCalls[m]
      seen == Append(call.answers, answer)
  IN
  /\ call.pc = "request"
  /\ retryCalls' = [retryCalls EXCEPT ![m] =
       IF ~AttemptFails(m, answer)
         THEN [call EXCEPT !.pc = "returned", !.answers = seen, !.ret = Len(seen)]
       ELSE IF m # "dolarhoy" /\ LastAttempt(call.i)
         THEN [call EXCEPT !.pc = "threw", !.answers = seen, !.error = Len(seen)]
       ELSE [call EXCEPT !.pc = "wait", !.answers = seen, !.error = Len(seen)]]
  /\ UNCHANGED <<aggVars, pureVars, trackVars, variant, store, saves, connVars,
                 fetches>>

\* the backoff timer fires: i++, and with i < maxRetries the next request is
\* sent; else the loop ends: part_005 108 throws lastError, the other two
\* fall off the function's end and resolve with undefined
BackoffElapsed(m) ==
  LET call == retryCalls[m]
  IN
  /\ call.pc = "wait"
  /\ retryCalls' = [retryCalls EXCEPT ![m] =
       IF call.i + 1 < MaxRetries
         THEN [call EXCEPT !.pc = "request", !.i = call.i + 1]
       ELSE IF m = "dolarhoy"
         THEN [call EXCEPT !.pc = "threw", !.i = call.i + 1]
       ELSE [call EXCEPT !.pc = "returned", !.i = call.i + 1, !.ret = 0]]
  /\ UNCHANGED <<aggVars, pureVars, trackVars, variant, store, saves, connVars,
                 fetches>>

\* the caller has taken the outcome; the module's next call may start
FetchWithRetryDone(m) ==
  /\ retryCalls[m].pc \in {"returned", "threw"}
  /\ retryCalls' = [retryCalls EXCEPT ![m] = NoFetch]
  /\ UNCHANGED <<aggVars, pureVars, trackVars, variant, store, saves, connVars,
                 fetches>>

\* a request that is out settles, and a timer that is set fires
RetryProgress(m) ==
  \/ \E answer \in Answers : RequestSettled(m, answer)
  \/ BackoffElapsed(m)

NextRetry ==
  \/ \E m \in RetryModules : FetchWithRetryBegin(m)
  \/ \E m \in RetryModules, answer \in Answers : RequestSettled(m, answer)
  \/ \E m \in RetryModules : BackoffElapsed(m)
  \/ \E m \in RetryModules : FetchWithRetryDone(m)

SpecRetry ==
  /\ Init /\ [][NextRetry]_vars
  /\ \A m \in RetryModules : WF_vars(RetryProgress(m))

(* ---------------------------------------------------------------------- *)
(* calculateAverages called directly                                       *)
(* ---------------------------------------------------------------------- *)
\* quotes as the adapters push them and as a caller may pass them: the three
\* of the documented example, a quote without sell price, one without buy
\* price, a zero and a negative buy price
QuoteInputs ==
  {[source |-> "Wise", source_url |-> SourceUrl("Wise"),
    buy_price |-> Num(50000), sell_price |-> Num(51000)],
   [source |-> "Nubank", source_url |-> SourceUrl("Nubank"),
    buy_price |-> Num(52000), sell_price |-> Num(53000)],
   [source |-> "Nomad", source_url |-> SourceUrl("Nomad"),
    buy_price |-> Num(54000), sell_price |-> Num(55000)],
   [source |-> "Wise", source_url |-> SourceUrl("Wise"),
    buy_price |-> Num(50000), sell_price |-> Undefined],
   [source |-> "Wise", source_url |-> SourceUrl("Wise"),
    buy_price |-> Undefined, sell_price |-> Num(51000)],
   [source |-> "Wise", source_url |-> SourceUrl("Wise"),
    buy_price |-> Num(0), sell_price |-> Num(51000)],
   [source |-> "Wise", source_url |-> SourceUrl("Wise"),
    buy_price |-> Num(0 - 10000), sell_price |-> Undefined]}

\* the sequences over S of length at most n
SeqsUpTo(S, n) == UNION {[1 .. k -> S] : k \in 0 .. n}

AverageInputs == {Null} \cup {Arr(q) : q \in SeqsUpTo(QuoteInputs, MaxLen)}

\* averages arguments: null, undefined, what calculateAverages returns for
\* the same quotes, fixed averages, and averages with one null price
SlippageAverages(quotes) ==
  {Null, Undefined, calculateAverages(quotes),
   [t |-> "object", average_buy_price |-> Str4(52000),
    average_sell_price |-> Str4(53000), quote_count |-> Num(3)],
   [t |-> "object", average_buy_price |-> Str4(52000),
    average_sell_price |-> Null, quote_count |-> Num(1)],
   [t |-> "object", average_buy_price |-> Null,
    average_sell_price |-> Str4(53000), quote_count |-> Num(1)]}

InitAvg ==
  /\ InitAgg
  /\ InitStatus
  /\ InitStore
  /\ variant = "better-sqlite3"
  /\ avgIn \in AverageInputs
  /\ avgOut = Unset
  /\ slipAvg \in SlippageAverages(avgIn)
  /\ slipOut = Unset
  /\ scrapeIn = Unset
  /\ scrapeOut = Unset

CallAverages ==
  /\ avgOut = Unset
  /\ avgOut' = calculateAverages(avgIn)
  /\ UNCHANGED <<aggVars, trackVars, storeVars, avgIn, slipAvg, slipOut, scrapeVars>>

CallSlippage ==
  /\ slipOut = Unset
  /\ slipOut' = calculateSlippage(avgIn, slipAvg)
  /\ UNCHANGED <<aggVars, trackVars, storeVars, avgIn, avgOut, slipAvg, scrapeVars>>

NextAvg == CallAverages \/ CallSlippage

SpecAvg == InitAvg /\ [][NextAvg]_vars

(* ---------------------------------------------------------------------- *)
(* The BRL adapters (scrapers/brlWise.js, brlNubank.js, brlNomad.js),      *)
(* called directly                                                         *)
(* ---------------------------------------------------------------------- *)
\* parseFloat((x * m / 1000).toFixed(4)), x in units of 1e-4
Fixed4Mul(x, m) ==
  IF x < 0 THEN 0 - RoundDivAbs(x * m, 1000) ELSE RoundDivAbs(x * m, 1000)

\* parsePriceText (brlNubank.js 8-16, brlWise.js 8-16): null for no text,
\* and parseFloat(numberStr) || null for a text, here the number that the
\* cleaned text reads as (the cleaning drops every sign)
parsePriceText(text) ==
  IF text.t = "num" /\ text.v # 0 THEN text ELSE Null

\* the object an adapter returns from a rate it extracted
LiveQuote(s, buy, sell) ==
  [t |-> "object", source |-> s, buy |-> Num(buy), sell |-> Num(sell)]

\* the object an adapter returns from its catch block
FallbackQuote(s, buy, sell) ==
  [t |-> "object", source |-> s, buy |-> Num(buy), sell |-> Num(sell),
   is_fallback |-> Bool(TRUE)]

\* parseBrlNomad (brlNomad.js 22-86): web.rate is the number that the regular
\* expression of line 51 matches in the rate text, if there is a text and a
\* match (digits only, so parseFloat never yields NaN at 56)
parseBrlNomad(web) ==
  IF web.t = "error" \/ web.rate.t # "num"
  THEN FallbackQuote("Nomad", 51000, 52000)
  ELSE LiveQuote("Nomad", Fixed4Mul(web.rate.v, 990), Fixed4Mul(web.rate.v, 1010))

\* lines 126-144 of parseBrlNubank: the first selector whose two texts both
\* parse to a truthy number sets buy and sell
NubankSelected(found) ==
  LET hits == {i \in DOMAIN found :
                 /\ Truthy(parsePriceText(found[i].buy))
                 /\ Truthy(parsePriceText(found[i].sell))}
      first == CHOOSE i \in hits : \A j \in hits : i <= j
  IN IF hits = {}
     THEN [buy |-> Undefined, sell |-> Undefined]
     ELSE [buy |-> parsePriceText(found[first].buy),
           sell |-> parsePriceText(found[first].sell)]

\* parseBrlNubank (brlNubank.js 52-178)
parseBrlNubank(api, web) ==
  LET fallback == FallbackQuote("Nubank", 51500, 52500)
      mid == IF api.t = "api" THEN ParseFloat(api.amount) ELSE NaN
      sel == NubankSelected(web.found)
  IN CASE api.t = "error" -> fallback
       [] api.t = "api" /\ Truthy(api.amount) /\ mid.t = "num" ->
            LiveQuote("Nubank", Fixed4Mul(mid.v, 995), Fixed4Mul(mid.v, 1005))
       [] OTHER ->
            IF web.t = "error" THEN fallback
            ELSE IF Truthy(sel.buy) /\ ~Truthy(sel.sell)
                 THEN LiveQuote("Nubank", sel.buy.v, Fixed4Mul(sel.buy.v, 1010))
            ELSE IF Truthy(sel.sell) /\ ~Truthy(sel.buy)
                 THEN LiveQuote("Nubank", RoundDivAbs(sel.sell.v * 100, 101), sel.sell.v)
            ELSE IF ~Truthy(sel.buy) /\ ~Truthy(sel.sell)
                 THEN fallback
            ELSE LiveQuote("Nubank", sel.buy.v, sel.sell.v)

\* lines 183-199 of parseBrlWise: the first selector whose text parses to a
\* rate between 1 and 10
WiseSelected(found) ==
  LET ok(i) == LET r == parsePriceText(found[i])
               IN Truthy(r) /\ r.v > 10000 /\ r.v < 100000
      hits == {i \in DOMAIN found : ok(i)}
      first == CHOOSE i \in hits : \A j \in hits : i <= j
  IN IF hits = {} THEN Undefined ELSE parsePriceText(found[first])

\* parseBrlWise (brlWise.js 51-243): api is the answer of the rates API, an
\* error if the configuration or the rates request failed; the JSON-LD
\* branch (123-147) cannot return, its test of 126 excludes the match of 127
parseBrlWise(api, web) ==
  LET rate == IF api.t = "api" THEN ParseFloat(api.rate) ELSE NaN
      sel == WiseSelected(web.found)
  IN IF api.t = "api" /\ Truthy(api.rate) /\ rate.t = "num"
     THEN LiveQuote("Wise", Fixed4Mul(rate.v, 995), Fixed4Mul(rate.v, 1005))
     ELSE IF web.t = "error" \/ ~Truthy(sel)
          THEN FallbackQuote("Wise", 51000, 52000)
          ELSE LiveQuote("Wise", Fixed4Mul(sel.v, 995), Fixed4Mul(sel.v, 1005))

\* the adapter of a direct call
Adapter(in) ==
  CASE in.source = "Nomad" -> parseBrlNomad(in.web)
    [] in.source = "Nubank" -> parseBrlNubank(in.api, in.web)
    [] OTHER -> parseBrlWise(in.api, in.web)

\* PushBrl without the spread of the adapter's object: the pushed quote is
\* built from the prices alone
PushBrlPricesOnly(data, s) ==
  [f \in {"t", "buy", "sell", "source", "source_url", "currency",
          "base_currency"} |->
     CASE f = "currency" -> "BRL"
       [] f = "base_currency" -> "USD"
       [] f = "source" -> s
       [] f = "source_url" -> SourceUrl(s)
       [] OTHER -> data[f]]

\* fetchBrlQuotes' push (quoteService.js 125-132, 140-147, 155-162): the
\* adapter's object spread, then currency, base_currency, source and
\* source_url
PushBrl(data, s) ==
  [f \in DOMAIN data \cup {"currency", "base_currency", "source_url"} |->
     CASE f = "currency" -> "BRL"
       [] f = "base_currency" -> "USD"
       [] f = "source" -> s
       [] f = "source_url" -> SourceUrl(s)
       [] OTHER -> data[f]]

\* answers of a JSON API: the request fails, no rate in the answer, a rate,
\* a negative number
ApiAnswers(field) ==
  {[t |-> "error"]}
  \cup {[t |-> "api"] @@ (field :> v) :
          v \in {Undefined, Num(52000), Num(0 - 52000)}}

\* texts a selector can find: none, "0,00", a rate, a larger rate, a number
\* that is no rate
PriceTexts == {Null, Num(0), Num(52000), Num(53000), Num(520000)}

\* answers to Nomad's page request
NomadPages ==
  {[t |-> "error"]}
  \cup {[t |-> "page", rate |-> r] : r \in {Undefined, Num(0), Num(52000)}}

\* answers to Nubank's page request: an error, or the texts its selectors find
NubankPages ==
  {[t |-> "error", found |-> <<>>]}
  \cup {[t |-> "page", found |-> f] :
          f \in [1 .. 2 -> {[buy |-> b, sell |-> x] :
                              b, x \in {Null, Num(52000), Num(53000)}}]}

\* answers to Wise's page request
WisePages ==
  {[t |-> "error", found |-> <<>>]}
  \cup {[t |-> "page", found |-> f] : f \in SeqsUpTo(PriceTexts, 2)}

ScrapeInputs ==
  {[source |-> "Nomad", api |-> [t |-> "none"], web |-> w] : w \in NomadPages}
  \cup {[source |-> "Nubank", api |-> a, web |-> w] :
          a \in ApiAnswers("amount"), w \in NubankPages}
  \cup {[source |-> "Wise", api |-> a, web |-> w] :
          a \in ApiAnswers("rate"), w \in WisePages}

InitScrape ==
  /\ InitAgg
  /\ InitStatus
  /\ InitStore
  /\ variant = "better-sqlite3"
  /\ avgIn = Unset
  /\ avgOut = Unset
  /\ slipAvg = Unset
  /\ slipOut = Unset
  /\ scrapeIn \in ScrapeInputs
  /\ scrapeOut = Unset

\* await parseBrlX() in fetchBrlQuotes (124, 139, 154)
CallAdapter ==
  /\ scrapeOut = Unset
  /\ scrapeOut' = [t |-> "returned", data |-> Adapter(scrapeIn)]
  /\ UNCHANGED <<aggVars, trackVars, storeVars, avgIn, avgOut, slipAvg,
                 slipOut, scrapeIn>>

\* the push of fetchBrlQuotes, and fetchAllQuotes' result with the quotes of
\* both groups (quoteService.js 36-42)
PushAndAggregate ==
  /\ scrapeOut.t = "returned"
  /\ scrapeOut' = [t |-> "aggregated", data |-> scrapeOut.data,
                   result |-> [t |-> "object", timestamp |-> now,
                               quotes |-> Arr(IF Truthy(scrapeOut.data)
                                              THEN <<PushBrl(scrapeOut.data,
                                                             scrapeIn.source)>>
                                              ELSE <<>>)]]
  /\ UNCHANGED <<aggVars, trackVars, storeVars, avgIn, avgOut, slipAvg,
                 slipOut, scrapeIn>>

NextScrape == CallAdapter \/ PushAndAggregate

SpecScrape == InitScrape /\ [][NextScrape]_vars

(* ---------------------------------------------------------------------- *)
(* Properties                                                              *)
(* ---------------------------------------------------------------------- *)
\* the call aggregated its result itself and Promise.all has resolved
Joined(c) == ~hit[c] /\ pc[c] \in {"persist", "returned", "threw", "done"}

\* the call aggregated its result itself and fetchAllQuotes resolved
ReturnedFresh(c) ==
  ~hit[c] /\ err[c] = "none" /\ pc[c] \in {"returned", "done"}

\* the quotes of the sources in ok, in the order the code collects them
QuotesOf(ok) ==
  LET pick(g) == SelectSeq(GroupSources(g), LAMBDA s : s \in ok)
      quotes(g) == [i \in 1 .. Len(pick(g)) |-> PushedQuote(g, pick(g)[i])]
  IN quotes("ars") \o quotes("brl")

\* C1: whatever subset of the six adapters throws or yields no data, no
\* call of fetchAllQuotes is rejected because of a source (the only
\* rejection is that of the database write), and the result the call caches
\* and returns holds exactly the quotes of the adapters that succeeded.
C1_SourceFailureIsolated ==
  \A c \in Slots :
    /\ pc[c] = "threw" => err[c] = "db"
    /\ pc[c] = "done" => err[c] \in {"none", "db"}
    /\ Joined(c) => Prop(result[c], "quotes") = Arr(QuotesOf(succeeded[c]))

\* C1 witness: a call returned after some adapters failed and some succeeded
C1_Witness ==
  \E c \in Slots :
    /\ ReturnedFresh(c) /\ pc[c] = "returned"
    /\ succeeded[c] # {} /\ succeeded[c] # Sources
    /\ Len(result[c].quotes.v) = Cardinality(succeeded[c])

\* C2: once a call has returned the result it aggregated, a later call that
\* starts less than CACHE_DURATION after that result's cache timestamp takes
\* the cache branch (no adapter is invoked) and returns that same result.
C2_SecondCallIdentical ==
  \A c \in Slots :
    (/\ pc[c] # "idle"
     /\ prior[c] # Unset
     /\ startedAt[c] - prior[c].cachedAt < CACHE_DURATION)
    => hit[c] /\ result[c] = prior[c].res

\* C3: GET /quotes answers X-Cache: HIT exactly when fetchAllQuotes served
\* the result from the cache slot, MISS when the result was aggregated.
C3_XCacheTellsHit ==
  \A c \in Slots :
    (kind[c] = "quotes" /\ resp[c].status = 200)
    => (resp[c].xcache = "HIT" <=> hit[c])
       /\ (resp[c].xcache = "MISS" <=> ~hit[c])

\* C4: a failure of the persistence write never makes fetchAllQuotes
\* reject: no call ends in a rejection caused by the database.
C4_PersistenceBestEffort ==
  \A c \in Slots : ~(pc[c] = "threw" /\ err[c] = "db")

\* C5: after the first cycle (empty ledger before it), if exactly one
\* adapter failed, the ledger has an entry for each of the six sources, with
\* consecutiveFailures 1 and success false for the failed one and
\* consecutiveFailures 0 and success true for the others.
C5_LedgerAfterOneFailure ==
  \A c \in Slots :
    (started = 1 /\ Joined(c) /\ Cardinality(succeeded[c]) = Cardinality(Sources) - 1)
    => /\ DOMAIN status = Sources
       /\ \A s \in Sources :
            /\ status[s].success = (s \in succeeded[c])
            /\ status[s].consecutiveFailures = IF s \in succeeded[c] THEN 0 ELSE 1

\* C6: a GET /quotes handler that has finished has sent a response: 200
\* when fetchAllQuotes resolved, 500 with an error body when it rejected.
C6_QuotesAlwaysAnswered ==
  \A c \in Slots :
    (kind[c] = "quotes" /\ pc[c] = "done")
    => IF err[c] = "none"
       THEN resp[c].status = 200
       ELSE resp[c].status = 500 /\ Truthy(Prop(resp[c].body, "error"))

\* C7: a cycle in which no adapter succeeds ends with fetchAllQuotes
\* resolving (no rejection) with an empty quote array, and the averages
\* computed for that result have a null buy and a null sell average.
C7_NoSourceIsSuccess ==
  \A c \in Slots :
    (Joined(c) /\ succeeded[c] = {})
    => /\ pc[c] \in {"returned", "done"}
       /\ err[c] = "none"
       /\ result[c].quotes = Arr(<<>>)
       /\ calculateAverages(result[c]).average_buy_price = Null
       /\ calculateAverages(result[c]).average_sell_price = Null
       /\ calculateAverages(result[c].quotes).average_buy_price = Null
       /\ calculateAverages(result[c].quotes).average_sell_price = Null

\* C7 witness: a call has returned from a cycle in which all six adapters
\* failed
C7_Witness ==
  \E c \in Slots :
    /\ ~hit[c] /\ pc[c] = "returned"
    /\ \A g \in Groups : idx[c][g] = 3
    /\ succeeded[c] = {}

\* the quotes of an array that have a numeric buy price
WithBuy(qs) == {i \in 1 .. Len(qs) : qs[i].buy_price.t = "num"}

\* C8: when the aggregate holds n >= 1 quotes with a buy price, GET /average
\* answers quote_count = n and non-null averages, those of the aggregate's
\* quotes.
C8_AverageOfAggregate ==
  \A c \in Slots :
    (/\ kind[c] = "average"
     /\ resp[c].status = 200
     /\ Cardinality(WithBuy(result[c].quotes.v)) >= 1)
    => /\ Prop(resp[c].body, "quote_count") = Num(Cardinality(WithBuy(result[c].quotes.v)))
       /\ resp[c].body.average_buy_price # Null
       /\ resp[c].body.average_sell_price # Null
       /\ resp[c].body = calculateAverages(result[c].quotes)

\* the quotes of an array whose buy price is a number greater than zero
PositiveBuys(qs) ==
  {i \in 1 .. Len(qs) : qs[i].buy_price.t = "num" /\ qs[i].buy_price.v > 0}

\* C9: for every quote sequence, quote_count is the number of quotes whose
\* buy price is defined and strictly positive.
C9_CountsPositiveBuys ==
  (avgOut # Unset /\ avgIn.t = "array")
  => Prop(avgOut, "quote_count") = Num(Cardinality(PositiveBuys(avgIn.v)))

\* the quotes of an array that the reducer counts
CountedIn(qs) == {i \in 1 .. Len(qs) : Counted(qs[i])}

\* C10: for null, the empty sequence and a sequence without any counted
\* quote, both averages are null and quote_count is 0; and the averages are
\* null only when quote_count is 0.
C10_NullAveragesIffZeroCount ==
  avgOut # Unset
  => /\ (avgIn.t # "array" \/ CountedIn(avgIn.v) = {})
        => /\ avgOut.average_buy_price = Null
           /\ avgOut.average_sell_price = Null
           /\ Prop(avgOut, "quote_count") = Num(0)
     /\ (avgOut.average_buy_price = Null \/ avgOut.average_sell_price = Null)
        => Prop(avgOut, "quote_count") = Num(0)

\* |x|
Abs(x) == IF x < 0 THEN 0 - x ELSE x

RECURSIVE SumOf(_, _, _)
\* the sum of f(qs[i]) over the indices i of idxs
SumOf(f(_), qs, idxs) ==
  IF idxs = {} THEN 0
  ELSE LET i == CHOOSE j \in idxs : TRUE
       IN f(qs[i]) + SumOf(f, qs, idxs \ {i})

\* a quote's buy price in units of 1e-6
Buy6(quote) == quote.buy_price.v * 100
\* a quote's sell price, or 1.02 times its buy price when it has none, in
\* units of 1e-6
SellOrSubstitute6(quote) ==
  IF quote.sell_price.t = "num" THEN quote.sell_price.v * 100
                                ELSE quote.buy_price.v * 102

\* s is the 4-decimal string nearest to total6 / count (total6 in 1e-6)
IsMean4(s, total6, count) ==
  /\ s.t = "str"
  /\ 2 * Abs(s.v * 100 * count - total6) <= 100 * count

\* the three quotes of the documented example
ExampleQuotes ==
  <<[source |-> "Wise", source_url |-> SourceUrl("Wise"),
     buy_price |-> Num(50000), sell_price |-> Num(51000)],
    [source |-> "Nubank", source_url |-> SourceUrl("Nubank"),
     buy_price |-> Num(52000), sell_price |-> Num(53000)],
    [source |-> "Nomad", source_url |-> SourceUrl("Nomad"),
     buy_price |-> Num(54000), sell_price |-> Num(55000)]>>

\* C11: for a sequence with at least one counted quote, average_buy_price
\* is sum(buy)/count and average_sell_price is sum(sell or buy * 1.02)/count
\* over the counted quotes, each printed with 4 decimals (the nearest
\* 4-decimal value), and quote_count is the count; for buys 5.0, 5.2, 5.4
\* with sells 5.1, 5.3, 5.5 the result is "5.2000", "5.3000" and 3.
C11_AveragesAreMeans ==
  (avgOut # Unset /\ avgIn.t = "array" /\ CountedIn(avgIn.v) # {})
  => LET counted == CountedIn(avgIn.v)
         n == Cardinality(counted)
     IN /\ IsMean4(avgOut.average_buy_price, SumOf(Buy6, avgIn.v, counted), n)
        /\ IsMean4(avgOut.average_sell_price,
                   SumOf(SellOrSubstitute6, avgIn.v, counted), n)
        /\ Prop(avgOut, "quote_count") = Num(n)
        /\ avgIn.v = ExampleQuotes
           => /\ avgOut.average_buy_price = Str4(52000)
              /\ avgOut.average_sell_price = Str4(53000)
              /\ avgOut.quote_count = Num(3)

\* C11 witness: calculateAverages has returned for the documented example
C11_Witness ==
  /\ avgOut # Unset
  /\ avgIn = Arr(ExampleQuotes)
  /\ avgOut.average_buy_price = Str4(52000)

\* the integer nearest to 10000 * num / den (den # 0), halves away from zero
Scaled4(num, den) ==
  LET x == Abs(num)
      y == Abs(den)
      m == (x \div y) * 10000 + RoundDivAbs((x % y) * 10000, y)
  IN IF (num < 0) = (den < 0) THEN m ELSE 0 - m

\* s is the 4-decimal string of the value v / 10000
Shows4(s, v) == IF v = 0 THEN s \in {Str4(0), NegZeroStr} ELSE s = Str4(v)

\* C12: for every quote with a buy price and non-null, non-zero averages,
\* buy_price_slippage is 100 * (buy - avg_buy) / avg_buy and
\* sell_price_slippage is 100 * (sell - avg_sell) / avg_sell (sell being the
\* sell price or 1.02 times the buy price), each with 4 decimals; for buy 5.0
\* against 5.2 it is -3.8462 and for sell 5.1 against 5.3 it is -3.7736.
C12_SlippageIsPercentage ==
  (/\ slipOut # Unset
   /\ avgIn.t = "array"
   /\ Truthy(slipAvg)
   /\ Prop(slipAvg, "average_buy_price").t = "str"
   /\ Prop(slipAvg, "average_sell_price").t = "str")
  => LET avgBuy == slipAvg.average_buy_price.v
         avgSell == slipAvg.average_sell_price.v
     IN /\ slipOut.t = "array"
        /\ Len(slipOut.v) = Len(avgIn.v)
        /\ \A i \in 1 .. Len(avgIn.v) :
             LET quote == avgIn.v[i]
             IN (quote.buy_price.t = "num" /\ avgBuy # 0 /\ avgSell # 0)
                => /\ Shows4(slipOut.v[i].buy_price_slippage,
                             Scaled4((quote.buy_price.v - avgBuy) * 100, avgBuy))
                   /\ Shows4(slipOut.v[i].sell_price_slippage,
                             Scaled4(SellOrSubstitute6(quote) - avgSell * 100, avgSell))
        /\ (avgIn.v = ExampleQuotes /\ avgBuy = 52000 /\ avgSell = 53000)
           => /\ slipOut.v[1].buy_price_slippage = Str4(0 - 38462)
              /\ slipOut.v[1].sell_price_slippage = Str4(0 - 37736)

\* C13: calculateSlippage never throws, and returns the empty sequence
\* whenever quotes is null or empty, averages is null, or one of the two
\* averages is null; calculateAverages does not throw on null or empty input.
C13_EmptyInputsNeverThrow ==
  /\ slipOut # Unset
     => /\ slipOut # Thrown
        /\ (\/ avgIn = Null
            \/ avgIn = Arr(<<>>)
            \/ slipAvg = Null
            \/ Prop(slipAvg, "average_buy_price") = Null
            \/ Prop(slipAvg, "average_sell_price") = Null)
           => slipOut = Arr(<<>>)
  /\ (avgOut # Unset /\ avgIn \in {Null, Arr(<<>>)})
     => /\ avgOut # Thrown
        /\ avgOut.t = "object"
        /\ avgOut.average_buy_price = Null
        /\ avgOut.average_sell_price = Null

\* C13 witness: both functions have returned, calculateSlippage for quotes
\* that are there and averages that are null
C13_Witness ==
  /\ avgOut # Unset
  /\ slipOut = Arr(<<>>)
  /\ avgIn.t = "array" /\ Len(avgIn.v) > 0
  /\ slipAvg = Null

\* the ledger's consecutiveFailures for a source, 0 when it has no entry
FailuresIn(ledger, s) ==
  IF s \in DOMAIN ledger THEN ledger[s].consecutiveFailures ELSE 0

\* C14: after an updateStatus call, a recorded success leaves the source
\* with consecutiveFailures 0 and error null, a recorded failure with the
\* previous consecutiveFailures plus 1 (1 for a source not yet in the ledger)
\* and the error's message; lastAttempt is the call's timestamp; the entries
\* of all other sources are as they were.
C14_UpdateStatusCounts ==
  lastUpdate # Unset
  => LET src == lastUpdate.source
         args == lastUpdate.args
         before == lastUpdate.before
         recordedSuccess == args.success \in {Undefined, Bool(TRUE)}
     IN /\ src \in DOMAIN status
        /\ status[src].success = recordedSuccess
        /\ recordedSuccess
           => /\ status[src].consecutiveFailures = 0
              /\ status[src].error = Null
        /\ ~recordedSuccess
           => /\ status[src].consecutiveFailures = FailuresIn(before, src) + 1
              /\ status[src].error =
                   IF args.error.t = "error" THEN args.error.message ELSE args.error
        /\ status[src].lastAttempt =
             IF args.timestamp = Undefined THEN lastUpdate.at ELSE args.timestamp.v
        /\ DOMAIN status = DOMAIN before \cup {src}
        /\ \A s \in DOMAIN before : s # src => status[s] = before[s]

\* C14 witness: a second consecutive failure has been recorded for a source
\* while another source has an entry
C14_Witness ==
  /\ lastUpdate # Unset
  /\ lastUpdate.args.success = Bool(FALSE)
  /\ status[lastUpdate.source].consecutiveFailures = 2
  /\ DOMAIN lastUpdate.before = TrackedSources

RECURSIVE TrailingFailures(_)
\* the number of failures at the end of a sequence of outcomes
TrailingFailures(seq) ==
  IF seq = <<>> \/ seq[Len(seq)] THEN 0
  ELSE 1 + TrailingFailures(SubSeq(seq, 1, Len(seq) - 1))

\* C15: isHealthy(source) is true exactly when the last outcome recorded for
\* the source is a success and fewer than 3 failures are recorded in a row;
\* it is false after 3 consecutive failures and true right after one success
\* that follows them.
C15_HealthyIffLastSucceeded ==
  \A s \in Sources :
    LET seq == outcomes[s]
    IN /\ isHealthy(s) <=> (seq # <<>> /\ seq[Len(seq)] /\ TrailingFailures(seq) < 3)
       /\ TrailingFailures(seq) >= 3 => ~isHealthy(s)
       /\ (Len(seq) >= 4 /\ seq[Len(seq)]
           /\ TrailingFailures(SubSeq(seq, 1, Len(seq) - 1)) >= 3)
          => isHealthy(s)

\* C15 witness: a source is healthy after three failures and one success
C15_Witness ==
  \E s \in Sources :
    /\ outcomes[s] = <<FALSE, FALSE, FALSE, TRUE>>
    /\ isHealthy(s)

\* the rows of a table that have the key of row
SameKey(rows, row) == {r \in rows : RateKey(r) = RateKey(row)}

\* C16: after two saveExchangeRate calls that resolved with the same (base,
\* target, source, timestamp) key, exchange_rates has exactly one row for the
\* key and it holds the second call's buy and sell rates; and a save that
\* repeats the one before it identically leaves the tables as they were.
C16_SaveIdempotent ==
  \A i, j \in 1 .. Len(saves) :
    (/\ i < j
     /\ saves[i].resolved /\ saves[j].resolved
     /\ RateKey(saves[i].row) = RateKey(saves[j].row))
    => /\ SameKey(saves[j].after.exchange_rates, saves[j].row) = {saves[j].row}
       /\ (j = i + 1 /\ saves[i].row = saves[j].row)
          => saves[j].after = saves[j].before

\* the call has invoked the source adapters (it did not take the cache branch)
FannedOut(c) == pc[c] # "idle" /\ ~hit[c]

\* C17: two calls of fetchAllQuotes that both fan out to the sources never
\* start within CACHE_DURATION of each other: a call that starts while
\* another cycle is in flight, or less than 30 s after its start, is served
\* without invoking the adapters.
C17_OneFanOutPerWindow ==
  \A c, d \in Slots :
    (c # d /\ FannedOut(c) /\ FannedOut(d))
    => Abs(startedAt[c] - startedAt[d]) >= CACHE_DURATION

\* the adapters of a fanned-out call whose invocation has begun: in each
\* group those already settled and the one being awaited
StartedAdapters(c) ==
  UNION {{GroupSources(g)[i] : i \in 1 .. (IF idx[c][g] < 3 THEN idx[c][g] + 1 ELSE 3)} :
           g \in Groups}

\* the adapters of a fanned-out call whose result has been taken (pushed to
\* the group's results or dropped)
ConsumedAdapters(c) ==
  UNION {{GroupSources(g)[i] : i \in 1 .. idx[c][g]} : g \in Groups}

\* C18: in a cycle, once any adapter's result has been consumed every one
\* of the six adapters has been started: no adapter starts only after
\* another adapter of the cycle completed.
C18_FanOutThenJoin ==
  \A c \in Slots :
    (FannedOut(c) /\ ConsumedAdapters(c) # {}) => StartedAdapters(c) = Sources

C20_EveryCallEnds ==
  \A c \in Slots : (pc[c] = "fetching") ~> (pc[c] \in {"returned", "threw"})

\* a call returned quotes of other sources after Wise failed every request
\* its adapter makes
C20_Witness ==
  \E c \in Slots :
    /\ pc[c] = "returned"
    /\ ~hit[c]
    /\ tries[c]["Wise"] = RequestBudget("Wise") - 1
    /\ "Wise" \notin succeeded[c]
    /\ succeeded[c] # {}

\* C21: every quote an adapter returns has buy > 0 and sell >= buy: no
\* returned quote has a missing, zero or NaN price.
C21_AdapterQuotesWellFormed ==
  (scrapeOut.t \in {"returned", "aggregated"} /\ Truthy(scrapeOut.data))
  => /\ Prop(scrapeOut.data, "buy").t = "num"
     /\ Prop(scrapeOut.data, "sell").t = "num"
     /\ scrapeOut.data.buy.v > 0
     /\ scrapeOut.data.sell.v >= scrapeOut.data.buy.v

\* the call's answers let some extraction strategy of the adapter find a rate
Extracted(in) ==
  LET numeric(x) == x.t = "num" /\ x.v # 0
  IN CASE in.source = "Nomad" -> in.web.t = "page" /\ in.web.rate.t = "num"
       [] in.source = "Nubank" ->
            /\ in.api.t = "api"
            /\ \/ numeric(in.api.amount)
               \/ \E i \in DOMAIN in.web.found :
                    numeric(in.web.found[i].buy) /\ numeric(in.web.found[i].sell)
       [] OTHER ->
            \/ in.api.t = "api" /\ numeric(in.api.rate)
            \/ \E i \in DOMAIN in.web.found :
                 /\ in.web.found[i].t = "num"
                 /\ in.web.found[i].v > 10000
                 /\ in.web.found[i].v < 100000

\* the quote carries is_fallback = true
Flagged(q) == "is_fallback" \in DOMAIN q /\ q.is_fallback = Bool(TRUE)

\* C22: the quote an adapter returns carries is_fallback = true exactly
\* when no extraction strategy found a rate, and the quote of that source in
\* fetchAllQuotes' result carries the flag exactly when the adapter's does.
C22_FallbackStaysFlagged ==
  /\ scrapeOut.t \in {"returned", "aggregated"}
     => (Flagged(scrapeOut.data) <=> ~Extracted(scrapeIn))
  /\ scrapeOut.t = "aggregated"
     => /\ Len(scrapeOut.result.quotes.v) = 1
        /\ Flagged(scrapeOut.result.quotes.v[1]) <=> Flagged(scrapeOut.data)

\* a placeholder quote reached fetchAllQuotes' result with its flag
C22_Witness ==
  /\ scrapeOut.t = "aggregated"
  /\ ~Extracted(scrapeIn)
  /\ Flagged(scrapeOut.result.quotes.v[1])
  /\ scrapeOut.result.quotes.v[1].buy = Num(51500)

\* the sell price of a slippage record, in units of 1e-6
RecordSell6(record) == record.sell_price.v

\* C23: for every quote that calculateAverages counts, the sell price in
\* the quote's slippage record is the quote's sell price, or 1.02 times its
\* buy price when it has none, and average_sell_price is the mean of the
\* sell prices of those records: both functions use the same sell price.
C23_SameSubstitution ==
  (avgOut # Unset /\ slipOut # Unset /\ slipOut.t = "array" /\ Len(slipOut.v) > 0)
  => LET counted == CountedIn(avgIn.v)
     IN /\ \A i \in counted :
             slipOut.v[i].sell_price = Num6(SellOrSubstitute6(avgIn.v[i]))
        /\ counted # {}
           => IsMean4(avgOut.average_sell_price,
                      SumOf(RecordSell6, slipOut.v, counted),
                      Cardinality(counted))

\* both functions have returned for quotes of which one has a sell price
\* and one has none
C23_Witness ==
  /\ avgOut # Unset /\ slipOut # Unset
  /\ slipOut.t = "array" /\ Len(slipOut.v) > 1
  /\ \E i, j \in CountedIn(avgIn.v) :
       /\ avgIn.v[i].sell_price = Undefined
       /\ avgIn.v[j].sell_price.t = "num"
       /\ slipOut.v[i].sell_price = Num6(avgIn.v[i].buy_price.v * 102)

\* C24: for a non-empty quote sequence and averages that are not null,
\* calculateSlippage returns one record per quote in the order of the
\* quotes: record i has the source and the source_url of quote i.
C24_OneRecordPerQuoteInOrder ==
  (/\ slipOut # Unset
   /\ avgIn.t = "array" /\ Len(avgIn.v) > 0
   /\ Truthy(slipAvg)
   /\ Prop(slipAvg, "average_buy_price") # Null
   /\ Prop(slipAvg, "average_sell_price") # Null)
  => /\ slipOut.t = "array"
     /\ Len(slipOut.v) = Len(avgIn.v)
     /\ \A i \in 1 .. Len(avgIn.v) :
          /\ slipOut.v[i].source = avgIn.v[i].source
          /\ slipOut.v[i].source_url = avgIn.v[i].source_url

\* calculateSlippage has returned records for quotes that are not sorted by
\* source, two of them of the same source and one without buy price
C24_Witness ==
  /\ slipOut # Unset /\ slipOut.t = "array" /\ Len(slipOut.v) = 3
  /\ avgIn.v[1].source = "Wise" /\ avgIn.v[2].source = "Nomad"
  /\ avgIn.v[3] = avgIn.v[1]
  /\ ~Counted(avgIn.v[1])
  /\ slipOut.v[2].source_url = SourceUrl("Nomad")

\* C25: a source that updateStatus recorded stays in the ledger whichever
\* calls follow, and isHealthy is false for a source that was never
\* recorded.
C25_LedgerOnlyGrows ==
  \A s \in Sources :
    /\ outcomes[s] # <<>> => s \in DOMAIN status
    /\ outcomes[s] = <<>>
       => /\ ~isHealthy(s)
          /\ (lastQuery # Unset /\ lastQuery.call = "isHealthy" /\ lastQuery.source = s)
             => lastQuery.value = Bool(FALSE)

\* a source was recorded twice, and isHealthy was then asked about a source
\* that never was
C25_Witness ==
  /\ Len(outcomes["Ambito"]) = 2 /\ "Ambito" \in DOMAIN status
  /\ outcomes["Wise"] = <<>>
  /\ lastQuery # Unset /\ lastQuery.call = "isHealthy"
  /\ lastQuery.source = "Wise" /\ lastQuery.value = Bool(FALSE)

\* C28: every entry of the ledger has success = true exactly when its
\* consecutiveFailures is 0, so isHealthy of a recorded source is true
\* exactly when the last outcome recorded for it was a success, and false
\* when one failure is all that was recorded.
C28_SuccessIffNoFailures ==
  \A s \in DOMAIN status :
    /\ status[s].success <=> status[s].consecutiveFailures = 0
    /\ outcomes[s] # <<>>
    /\ isHealthy(s) <=> outcomes[s][Len(outcomes[s])]
    /\ outcomes[s] = <<FALSE>> => ~isHealthy(s)

\* one failure is all that was recorded for a source and isHealthy
\* returned false for it
C28_Witness ==
  /\ outcomes["Wise"] = <<FALSE>>
  /\ status["Wise"].consecutiveFailures = 1
  /\ lastQuery # Unset /\ lastQuery.call = "isHealthy"
  /\ lastQuery.source = "Wise" /\ lastQuery.value = Bool(FALSE)

\* C26: no step replaces the cache entry by one with an older timestamp.
C26_CachedAtNeverDecreases ==
  [][(Truthy(cache) /\ Truthy(cache')) => cache'.timestamp >= cache.timestamp]_vars

\* a call in progress that began after the cycle of failedCycle threw
LaterCall(c) == failedCycle # Unset /\ pc[c] # "idle" /\ err[c] = "none"

\* the call took the cache branch, returned the failed cycle's result and
\* sent nothing to the database
ServedFailedResult(c) ==
  /\ hit[c]
  /\ pc[c] \in {"returned", "done"}
  /\ result[c] = failedCycle.data
  /\ dbIdx[c] = 0 /\ uncommitted[c] = {} /\ persisted[c] = {}

C29_OpensAndInitializesOnce ==
  opened <= 1 /\ Len(initialized) <= 1

\* the requests a fetchWithRetry call has sent
Attempts(m) ==
  Len(retryCalls[m].answers) + (IF retryCalls[m].pc = "request" THEN 1 ELSE 0)

\* the call's first n requests all failed
AllFailed(m, n) ==
  \A j \in 1 .. n : AttemptFails(m, retryCalls[m].answers[j])

\* the call sends at most maxRetries requests; when it has returned, it
\* returned the response of its last request and every request before that
\* one failed; when it has thrown, maxRetries requests failed and it threw
\* the error of the last
RetryBounded(m) ==
  LET call == retryCalls[m]
      n == Len(call.answers)
  IN
  /\ Attempts(m) <= MaxRetries
  /\ call.pc = "returned" =>
       /\ call.ret = n
       /\ n >= 1
       /\ ~AttemptFails(m, call.answers[n])
       /\ AllFailed(m, n - 1)
  /\ call.pc = "threw" =>
       /\ n = MaxRetries
       /\ AllFailed(m, n)
       /\ call.error = n

\* C30: a fetchWithRetry call sends at most maxRetries (3) requests, returns
\* the first response that does not fail without sending another request,
\* throws the last error once the third request has failed, and every call
\* that was started ends by returning or throwing.
C30_RetryBoundedAndEnds ==
  /\ [](\A m \in RetryModules : RetryBounded(m))
  /\ \A m \in RetryModules :
       (retryCalls[m].pc \in {"request", "wait"})
         ~> (retryCalls[m].pc \in {"returned", "threw"})

\* one call has thrown after three failures, one (of part_005) has thrown
\* after its last backoff, and one has returned its second response
C30_Witness ==
  /\ retryCalls["brlWise"].pc = "threw" /\ Attempts("brlWise") = MaxRetries
  /\ retryCalls["dolarhoy"].pc = "threw" /\ retryCalls["dolarhoy"].i = MaxRetries
  /\ retryCalls["brlNubank"].pc = "returned" /\ retryCalls["brlNubank"].ret = 2

====
